---------------------------- MODULE Spec2Model ----------------------------
(***************************************************************************)
(* The print server of print-shop-pipsta.py: main()'s accept loop, the     *)
(* per-byte session state machine of a connection, the busy-poll           *)
(* handshake with the printer and the print job run at the end of an       *)
(* image upload.                                                           *)
(*                                                                         *)
(* Bytes are integers 0..255, strings are sequences of bytes.  The client  *)
(* and the printer are the environment: the client chooses the chunks      *)
(* recv() returns, the printer chooses the status byte of every            *)
(* control-transfer and whether a USB operation fails.                     *)
(***************************************************************************)
EXTENDS Integers, Sequences, FiniteSets, TLC

(***************************************************************************)
(* Bounds of the model.                                                    *)
(***************************************************************************)
\* non-empty chunks recv() returns within one connection
MaxRecv == 4
\* bytes the client sends once the session is in TEXT or in an image mode
MaxPayload == 3

(***************************************************************************)
(* Program constants.                                                      *)
(***************************************************************************)
PRINT_MODE_NEW == 0
PRINT_MODE_TXT == 1
PRINT_MODE_SCR == 2
PRINT_MODE_NXI == 3
PRINT_MODE_CMD == -1

DOTS_PER_LINE == 384
BYTES_PER_DOT_LINE == DOTS_PER_LINE \div 8
USB_BUSY == 66

SET_FONT_MODE_3 == <<27, 33, 3>>
SET_LED_MODE == <<27, 88, 45>>
FEED_PAST_CUTTER == <<10, 10, 10, 10, 10>>
SELECT_SDL_GRAPHICS == <<27, 42, 8>>

\* chr(0), the byte that opens a command, and chr(13), the byte that ends it
NUL == 0
CR == 13

\* the command texts the dispatcher compares with
DotSCR == <<46, 83, 67, 82>>
DotNXI == <<46, 78, 88, 73>>
StrSET == <<83, 69, 84>>
StrDither == <<100, 105, 116, 104, 101, 114>>
StrRotate == <<114, 111, 116, 97, 116, 101>>

(***************************************************************************)
(* The environment's choices.                                              *)
(***************************************************************************)
\* what one recv() may return.  TCP cuts the stream anywhere, so a chunk is a
\* framing byte alone, a command word with or without the chr(0) that opens
\* it (".scr" in lower case too), a keyword (with the blank that separates it
\* from SET), the text "HI", or a whole SET command
Chunks ==
    { <<NUL>>, <<CR>>,
      <<NUL>> \o DotSCR, <<NUL>> \o DotNXI, <<NUL>> \o StrSET,
      <<NUL, 46, 115, 99, 114>>,
      <<32>> \o StrDither, <<32>> \o StrRotate, <<72, 73>>,
      <<NUL>> \o StrSET \o <<32>> \o StrDither \o <<CR>>,
      <<NUL>> \o StrSET \o <<32>> \o StrRotate \o <<CR>> }

\* first byte of the two-byte status a control-transfer returns
StatusBytes == {USB_BUSY, 0}

\* size (width, height) of the bitmap the decoder hands back, after the
\* optional rotation: the decoders and PIL are external
ImageSizes == { <<384, 2>>, <<256, 1>>, <<192, 1>>, <<768, 1>> }

\* what the bitmap shows: all ink, or ink on every other row
Patterns == {"ink", "rows"}

\* PIL's value of pixel (x, y) of a mode "1" image: 0 is ink, 255 is paper
Pixel(p, x, y) ==
    IF p = "ink" THEN 0
    ELSE IF y % 2 = 0 THEN 0 ELSE 255

\* res before the first control-transfer has assigned it: no byte, so that
\* it differs from every status byte
NoStatus == -1

\* job while the connection has started no print job
NoJobYet == <<>>

(***************************************************************************)
(* str.startswith and the substring test "x in s".                         *)
(***************************************************************************)
StartsWith(s, p) ==
    /\ Len(p) <= Len(s)
    /\ SubSeq(s, 1, Len(p)) = p

Contains(s, sub) ==
    \E i \in 1..(Len(s) - Len(sub) + 1) : SubSeq(s, i, i + Len(sub) - 1) = sub

(***************************************************************************)
(* The command dispatch run when chr(13) arrives in command mode.          *)
(***************************************************************************)
\* mode after the dispatch
CmdMode(c, m) ==
    IF c = DotSCR THEN PRINT_MODE_SCR
    ELSE IF c = DotNXI THEN PRINT_MODE_NXI
    ELSE IF StartsWith(c, StrSET)
         THEN IF Contains(c, StrDither) THEN PRINT_MODE_NEW
              ELSE IF Contains(c, StrRotate) THEN PRINT_MODE_NEW
              ELSE m
    ELSE PRINT_MODE_NEW

\* [mutant] the dither branch does not set the flag
CmdDither_Never(c, d) == d

\* dither after the dispatch
CmdDither(c, d) ==
    IF c # DotSCR /\ c # DotNXI /\ StartsWith(c, StrSET) /\ Contains(c, StrDither)
    THEN 1 ELSE d

\* [mutant] a second rotate command turns the flag off again
CmdRotate_Toggle(c, r) ==
    IF /\ c # DotSCR /\ c # DotNXI /\ StartsWith(c, StrSET)
       /\ ~Contains(c, StrDither) /\ Contains(c, StrRotate)
    THEN 1 - r ELSE r

\* [mutant] the rotate branch does not set the flag
CmdRotate_Never(c, r) == r

\* rotate after the dispatch
CmdRotate(c, r) ==
    IF /\ c # DotSCR /\ c # DotNXI /\ StartsWith(c, StrSET)
       /\ ~Contains(c, StrDither) /\ Contains(c, StrRotate)
    THEN 1 ELSE r

\* [mutant] done is never set: the chr(13) goes on to the mode's action
CmdDone_Never(c) == FALSE

\* done after the dispatch: the byte is not handed to the mode's action
CmdDone(c) == c = DotSCR \/ c = DotNXI

\* classification of a byte received in PRINT_MODE_NEW
Classify(byte) == IF byte = NUL THEN PRINT_MODE_CMD ELSE PRINT_MODE_TXT

(***************************************************************************)
(* State.                                                                  *)
(***************************************************************************)
VARIABLES
    pc,            \* where main() is
    mode, size, dither, rotate, cmd, input_buffer,   \* the session, lines 210-215
    data,          \* bytes of the current chunk not yet iterated over
    res,           \* status byte of the last control-transfer
    print_data,    \* the dot-line bytes convert_image returned
    line,          \* print_image's loop variable
    exitCause,     \* the exception that ended the process, "" while it runs
    recvs,         \* history: non-empty chunks received on this connection
    received,      \* history: the bytes received on this connection
    writes,        \* history: the writes to the USB OUT endpoint, this connection
    job,           \* history: the decoder calls of this connection's print job
    handshake      \* history: "clear", or "written"/"busy" after a
                   \* flow-controlled write that no poll has seen not busy

vars == <<pc, mode, size, dither, rotate, cmd, input_buffer, data, res,
          print_data, line, exitCause, recvs, received, writes, job, handshake>>

session == <<mode, size, dither, rotate, cmd, input_buffer>>
printing == <<print_data, line>>
history == <<recvs, received, writes, job, handshake>>

Init ==
    /\ pc = "setup_usb"
    /\ mode = PRINT_MODE_NEW
    /\ size = 0
    /\ dither = 0
    /\ rotate = 0
    /\ cmd = <<>>
    /\ input_buffer = <<>>
    /\ data = <<>>
    /\ res = NoStatus
    /\ print_data = <<>>
    /\ line = 0
    /\ exitCause = ""
    /\ recvs = 0
    /\ received = <<>>
    /\ writes = <<>>
    /\ job = NoJobYet
    /\ handshake = "clear"

(***************************************************************************)
(* Startup, lines 195-201.                                                 *)
(***************************************************************************)
\* setup_usb finds no printer and raises IOError out of main()
SetupUsbNotFound ==
    /\ pc = "setup_usb"
    /\ pc' = "exited"
    /\ exitCause' = "DeviceNotFound"
    /\ UNCHANGED <<session, data, res, printing, history>>

\* setup_usb returns the endpoint; the LED is put in test mode; the socket is bound
SetupUsb ==
    /\ pc = "setup_usb"
    /\ writes' = Append(writes, SET_LED_MODE \o <<1>>)
    /\ handshake' = "clear"
    /\ pc' = "listen"
    /\ UNCHANGED <<session, data, res, printing, exitCause, recvs, received, job>>

(***************************************************************************)
(* The accept loop, lines 204-219.                                         *)
(***************************************************************************)
\* [mutant] the next connection is accepted while the job of the last one
\* still has its last write to do
Accept_DuringJob ==
    /\ pc \in {"listen", "job_led_end"}
    /\ mode' = PRINT_MODE_NEW
    /\ size' = 0
    /\ dither' = 0
    /\ rotate' = 0
    /\ cmd' = <<>>
    /\ input_buffer' = <<>>
    /\ recvs' = 0
    /\ received' = <<>>
    /\ writes' = <<>>
    /\ job' = NoJobYet
    /\ res' = NoStatus
    /\ print_data' = <<>>
    /\ line' = 0
    /\ pc' = "recv"
    /\ UNCHANGED <<data, exitCause, handshake>>

\* [mutant] dither and rotate are initialised once, before the accept loop
Accept_KeepsFlags ==
    /\ pc = "listen"
    /\ mode' = PRINT_MODE_NEW
    /\ size' = 0
    /\ cmd' = <<>>
    /\ input_buffer' = <<>>
    /\ recvs' = 0
    /\ received' = <<>>
    /\ writes' = <<>>
    /\ job' = NoJobYet
    /\ res' = NoStatus
    /\ print_data' = <<>>
    /\ line' = 0
    /\ pc' = "recv"
    /\ UNCHANGED <<dither, rotate, data, exitCause, handshake>>

\* accept() returns a connection and the per-connection variables are reset
\* (lines 210-215).  The histories start over with the connection, and the
\* model forgets res, print_data and line here: the code assigns each of them
\* again (lines 265, 176, 299, 169) before it reads it.
Accept ==
    /\ pc = "listen"
    /\ mode' = PRINT_MODE_NEW
    /\ size' = 0
    /\ dither' = 0
    /\ rotate' = 0
    /\ cmd' = <<>>
    /\ input_buffer' = <<>>
    /\ recvs' = 0
    /\ received' = <<>>
    /\ writes' = <<>>
    /\ job' = NoJobYet
    /\ res' = NoStatus
    /\ print_data' = <<>>
    /\ line' = 0
    /\ pc' = "recv"
    /\ UNCHANGED <<data, exitCause, handshake>>

\* bytes the client has sent since the session entered TEXT or an image mode
Payload ==
    IF mode = PRINT_MODE_TXT THEN Len(writes)
    ELSE IF mode \in {PRINT_MODE_SCR, PRINT_MODE_NXI} THEN Len(input_buffer)
    ELSE 0

\* recv() returns a non-empty chunk
Recv ==
    /\ pc = "recv"
    /\ recvs < MaxRecv
    /\ \E chunk \in Chunks :
          /\ mode \in {PRINT_MODE_TXT, PRINT_MODE_SCR, PRINT_MODE_NXI}
                => Payload + Len(chunk) <= MaxPayload
          /\ data' = chunk
          /\ received' = received \o chunk
    /\ recvs' = recvs + 1
    /\ pc' = "byte"
    /\ UNCHANGED <<session, res, printing, exitCause, writes, job, handshake>>

\* recv() returns the empty string: the peer closed, the read loop is left
RecvEnd ==
    /\ pc = "recv"
    /\ data' = <<>>
    /\ pc' = "eof"
    /\ UNCHANGED <<session, res, printing, exitCause, history>>

(***************************************************************************)
(* One iteration of "for byte in data", lines 222-272.                     *)
(***************************************************************************)
\* chr(13) in command mode: the command is dispatched
EndOfCommand(byte) == mode = PRINT_MODE_CMD /\ byte = CR

\* [mutant] a 0x00 opens a command in text mode and in the image modes too
ModeAfter_NulAlways(byte) ==
    IF mode = PRINT_MODE_CMD
    THEN IF byte = CR THEN CmdMode(cmd, mode) ELSE mode
    ELSE IF mode = PRINT_MODE_NEW THEN Classify(byte)
    ELSE IF byte = NUL THEN PRINT_MODE_CMD ELSE mode

\* mode once lines 224-258 have run for the byte
ModeAfter(byte) ==
    IF mode = PRINT_MODE_CMD
    THEN IF byte = CR THEN CmdMode(cmd, mode) ELSE mode
    ELSE IF mode = PRINT_MODE_NEW THEN Classify(byte) ELSE mode

\* done once lines 224-258 have run for the byte
DoneAfter(byte) == EndOfCommand(byte) /\ CmdDone(cmd)

\* [mutant] cmd is cleared only in the branches that go back to PRINT_MODE_NEW
CmdAfter_KeptOnImage(byte) ==
    IF mode = PRINT_MODE_CMD
    THEN IF byte = CR
         THEN IF CmdDone(cmd) THEN cmd ELSE <<>>
         ELSE Append(cmd, byte)
    ELSE cmd

\* cmd once lines 224-250 have run for the byte
CmdAfter(byte) ==
    IF mode = PRINT_MODE_CMD
    THEN IF byte = CR THEN <<>> ELSE Append(cmd, byte)
    ELSE cmd

\* lines 224-258: the command buffer, the flags and the mode
Dispatch(byte) ==
    /\ mode' = ModeAfter(byte)
    /\ cmd' = CmdAfter(byte)
    /\ dither' = IF EndOfCommand(byte) THEN CmdDither(cmd, dither) ELSE dither
    /\ rotate' = IF EndOfCommand(byte) THEN CmdRotate(cmd, rotate) ELSE rotate

\* where the loops go on once the byte at the head of data is finished
AfterByte == IF Len(data) > 1 THEN "byte" ELSE "recv"

\* [mutant] the bytes of a command are echoed to the printer
WritesText_EchoesCommand(byte) ==
    ~DoneAfter(byte) /\ ModeAfter(byte) \in {PRINT_MODE_TXT, PRINT_MODE_CMD}

\* [mutant] the classifying byte is consumed by the classification: the write
\* is decided on the mode the byte arrived in
WritesText_SkipsClassifier(byte) == ~DoneAfter(byte) /\ mode = PRINT_MODE_TXT

\* the byte is written to the printer (line 263)
WritesText(byte) == ~DoneAfter(byte) /\ ModeAfter(byte) = PRINT_MODE_TXT

\* [mutant] a chr(13) is never appended, whatever the mode
Buffers_SkipsCR(byte) ==
    /\ ~DoneAfter(byte)
    /\ byte # CR
    /\ ModeAfter(byte) \in {PRINT_MODE_SCR, PRINT_MODE_NXI}

\* the byte is appended to input_buffer (line 271)
Buffers(byte) ==
    ~DoneAfter(byte) /\ ModeAfter(byte) \in {PRINT_MODE_SCR, PRINT_MODE_NXI}

\* an iteration that does not write to the printer, lines 222-260 and 269-272
ProcessByte ==
    /\ pc = "byte"
    /\ LET byte == Head(data) IN
          /\ ~WritesText(byte)
          /\ Dispatch(byte)
          /\ input_buffer' = IF Buffers(byte)
                             THEN Append(input_buffer, byte)
                             ELSE input_buffer
    /\ size' = size + 1
    /\ data' = Tail(data)
    /\ pc' = AfterByte
    /\ UNCHANGED <<res, printing, exitCause, history>>

\* an iteration in text mode up to the write of the byte, lines 222-263
WriteText ==
    /\ pc = "byte"
    /\ LET byte == Head(data) IN
          /\ WritesText(byte)
          /\ Dispatch(byte)
          /\ writes' = Append(writes, <<byte>>)
    /\ handshake' = "written"
    /\ pc' = "txt_status"
    /\ UNCHANGED <<size, input_buffer, data, res, printing, exitCause, recvs, received, job>>

\* the first status poll after the write, line 265
TextStatus ==
    /\ pc = "txt_status"
    /\ \E s \in StatusBytes :
          /\ res' = s
          /\ handshake' = IF s = USB_BUSY THEN "busy" ELSE "clear"
    /\ pc' = "txt_while"
    /\ UNCHANGED <<session, data, printing, exitCause, recvs, received, writes, job>>

\* the body of "while res[0] == USB_BUSY", lines 266-268
TextBusyWait ==
    /\ pc = "txt_while"
    /\ res = USB_BUSY
    /\ \E s \in StatusBytes :
          /\ res' = s
          /\ handshake' = IF s = USB_BUSY THEN "busy" ELSE "clear"
    /\ UNCHANGED <<pc, session, data, printing, exitCause, recvs, received, writes, job>>

\* [mutant] the loop is left after one poll, whatever it reported
TextReady_IgnoresBusy ==
    /\ pc = "txt_while"
    /\ size' = size + 1
    /\ data' = Tail(data)
    /\ pc' = AfterByte
    /\ UNCHANGED <<mode, dither, rotate, cmd, input_buffer, res, printing, exitCause, history>>

\* the while loop is left and the iteration ends, lines 266 and 272
TextReady ==
    /\ pc = "txt_while"
    /\ res # USB_BUSY
    /\ size' = size + 1
    /\ data' = Tail(data)
    /\ pc' = AfterByte
    /\ UNCHANGED <<mode, dither, rotate, cmd, input_buffer, res, printing, exitCause, history>>

(***************************************************************************)
(* After the read loop, lines 274-334.                                     *)
(***************************************************************************)
\* neither "if mode == PRINT_MODE_SCR" nor "elif mode == PRINT_MODE_NXI" holds
NoJob ==
    /\ pc = "eof"
    /\ mode \notin {PRINT_MODE_SCR, PRINT_MODE_NXI}
    /\ pc' = "listen"
    /\ UNCHANGED <<session, data, res, printing, exitCause, history>>

(***************************************************************************)
(* The print job, lines 276-334 (the two branches differ in the decoder    *)
(* only), convert_image and print_image.                                   *)
(***************************************************************************)
ImageMode == mode \in {PRINT_MODE_SCR, PRINT_MODE_NXI}

\* hsize of lines 295-296 for a bitmap of width w and height h
HSize(w, h) == (h * DOTS_PER_LINE) \div w

\* bit i (from 0) of bitarray(image.getdata()) after invert(), for a bitmap
\* DOTS_PER_LINE wide
InvertedBit(p, i) ==
    IF Pixel(p, i % DOTS_PER_LINE, i \div DOTS_PER_LINE) # 0 THEN 0 ELSE 1

\* 2 to the n
RECURSIVE Pow2(_)
Pow2(n) == IF n = 0 THEN 1 ELSE 2 * Pow2(n - 1)

\* convert_image: the inverted bits packed eight to a byte, first bit highest
convert_image(p, h) ==
    [ b \in 1..((DOTS_PER_LINE * h) \div 8) |->
        LET base == 8 * (b - 1)
            Sum[k \in 0..8] ==
                IF k = 8 THEN 0
                ELSE InvertedBit(p, base + k) * Pow2(7 - k) + Sum[k + 1]
        IN Sum[0] ]

\* the decoder class of the branch taken
Decoder == IF mode = PRINT_MODE_SCR THEN "ZXScreen" ELSE "ZXImage"

\* [mutant] the test of line 279 the wrong way round
Variant_Inverted == IF dither = 0 THEN "dither" ELSE "mono"

\* the bitmap asked of the decoder, lines 279-282
Variant == IF dither = 0 THEN "mono" ELSE "dither"

\* whether img.rotate(90, 0, 1) is called, line 284
Rotates == rotate = 1

\* lines 276-299: parse, mono()/dither(), rotate, resize, convert_image
JobDecode ==
    /\ pc = "eof"
    /\ ImageMode
    /\ \E sz \in ImageSizes, p \in Patterns :
          /\ job' = [decoder |-> Decoder, variant |-> Variant,
                     rotated |-> Rotates, buffer |-> input_buffer,
                     hsize |-> HSize(sz[1], sz[2])]
          /\ print_data' = convert_image(p, HSize(sz[1], sz[2]))
    /\ pc' = "job_led"
    /\ UNCHANGED <<session, data, res, line, exitCause, recvs, received,
                   writes, handshake>>

\* screen.parse, mono() or dither() raises on the uploaded bytes
DecodeError ==
    /\ pc = "eof"
    /\ ImageMode
    /\ pc' = "exited"
    /\ exitCause' = "DecodeError"
    /\ UNCHANGED <<session, data, res, printing, history>>

\* img.resize raises
ResizeError ==
    /\ pc = "eof"
    /\ ImageMode
    /\ pc' = "exited"
    /\ exitCause' = "ResizeError"
    /\ UNCHANGED <<session, data, res, printing, history>>

\* a write of a printer command: no status poll follows it
WriteCommand(bytes) ==
    /\ writes' = Append(writes, bytes)
    /\ handshake' = "clear"

\* line 300
JobLedOff ==
    /\ pc = "job_led"
    /\ WriteCommand(SET_LED_MODE \o <<0>>)
    /\ pc' = "pi_font"
    /\ UNCHANGED <<session, data, res, printing, exitCause, recvs, received, job>>

\* print_image, lines 162-165
PrintImageStart ==
    /\ pc = "pi_font"
    /\ WriteCommand(SET_FONT_MODE_3)
    /\ line' = 0
    /\ pc' = "pi_line"
    /\ UNCHANGED <<session, data, res, print_data, exitCause, recvs, received, job>>

\* cmd of print_image: struct.pack('3s2B', ...), lines 163-165
GraphicsCmd ==
    SELECT_SDL_GRAPHICS \o
        << BYTES_PER_DOT_LINE % 256, BYTES_PER_DOT_LINE \div 256 >>

\* [mutant] the last line is lost when the data ends on a line boundary
Lines_OffByOne == (Len(print_data) - 1) \div BYTES_PER_DOT_LINE

\* lines of print_image, line 168
Lines == Len(print_data) \div BYTES_PER_DOT_LINE

\* [mutant] the rows are sent last row first
DotLine_Backwards ==
    SubSeq(print_data, (Len(print_data) \div BYTES_PER_DOT_LINE - 1 - line)
                          * BYTES_PER_DOT_LINE + 1,
           (Len(print_data) \div BYTES_PER_DOT_LINE - line) * BYTES_PER_DOT_LINE)

\* data[start:end] of the current line, lines 170-174
DotLine ==
    SubSeq(print_data, line * BYTES_PER_DOT_LINE + 1,
           line * BYTES_PER_DOT_LINE + BYTES_PER_DOT_LINE)

\* one dot line is written, lines 169-174
PrintLine ==
    /\ pc = "pi_line"
    /\ line < Lines
    /\ writes' = Append(writes, GraphicsCmd \o DotLine)
    /\ handshake' = "written"
    /\ pc' = "pi_status"
    /\ UNCHANGED <<session, data, res, printing, exitCause, recvs, received, job>>

\* the first status poll after the line, line 176
PrintStatus ==
    /\ pc = "pi_status"
    /\ \E s \in StatusBytes :
          /\ res' = s
          /\ handshake' = IF s = USB_BUSY THEN "busy" ELSE "clear"
    /\ pc' = "pi_while"
    /\ UNCHANGED <<session, data, printing, exitCause, recvs, received, writes, job>>

\* the body of "while res[0] == USB_BUSY", lines 177-180
PrintBusyWait ==
    /\ pc = "pi_while"
    /\ res = USB_BUSY
    /\ \E s \in StatusBytes :
          /\ res' = s
          /\ handshake' = IF s = USB_BUSY THEN "busy" ELSE "clear"
    /\ UNCHANGED <<pc, session, data, printing, exitCause, recvs, received,
                   writes, job>>

\* the while loop is left, the for loop goes to the next line
PrintLineDone ==
    /\ pc = "pi_while"
    /\ res # USB_BUSY
    /\ line' = line + 1
    /\ pc' = "pi_line"
    /\ UNCHANGED <<session, data, res, print_data, exitCause, history>>

\* the for loop is over and print_image returns, lines 169 and 181-183
PrintImageReturn ==
    /\ pc = "pi_line"
    /\ line >= Lines
    /\ pc' = "job_feed"
    /\ UNCHANGED <<session, data, res, printing, exitCause, history>>

\* line 302
JobFeed ==
    /\ pc = "job_feed"
    /\ WriteCommand(FEED_PAST_CUTTER)
    /\ pc' = "job_led_end"
    /\ UNCHANGED <<session, data, res, printing, exitCause, recvs, received, job>>

\* line 304; the accept loop goes round
JobLedOffEnd ==
    /\ pc = "job_led_end"
    /\ WriteCommand(SET_LED_MODE \o <<0>>)
    /\ pc' = "listen"
    /\ UNCHANGED <<session, data, res, printing, exitCause, recvs, received, job>>

(***************************************************************************)
(* USB errors.  Neither main() nor print_image() has an except clause      *)
(* (print_image's try has only "finally: pass", main's only disposes of    *)
(* the device), so an exception raised by a write or a control-transfer    *)
(* leaves both loops and ends the process.                                 *)
(***************************************************************************)
\* the statement main() is at is a write to the endpoint or a control-transfer
AtDeviceOp ==
    \/ pc = "byte" /\ WritesText(Head(data))
    \/ pc \in {"txt_status", "pi_status", "job_led", "pi_font", "job_feed",
               "job_led_end"}
    \/ pc \in {"txt_while", "pi_while"} /\ res = USB_BUSY
    \/ pc = "pi_line" /\ line < Lines

\* ep_out.write or device.ctrl_transfer raises usb.core.USBError
DeviceIOError ==
    /\ AtDeviceOp
    /\ pc' = "exited"
    /\ exitCause' = "DeviceIOError"
    /\ UNCHANGED <<session, data, res, printing, history>>

Next ==
    \/ SetupUsbNotFound
    \/ SetupUsb
    \/ Accept
    \/ Recv
    \/ RecvEnd
    \/ ProcessByte
    \/ WriteText
    \/ TextStatus
    \/ TextBusyWait
    \/ TextReady
    \/ NoJob
    \/ JobDecode
    \/ DecodeError
    \/ ResizeError
    \/ JobLedOff
    \/ PrintImageStart
    \/ PrintLine
    \/ PrintStatus
    \/ PrintBusyWait
    \/ PrintLineDone
    \/ PrintImageReturn
    \/ JobFeed
    \/ JobLedOffEnd
    \/ DeviceIOError

Spec == Init /\ [][Next]_vars

(***************************************************************************)
(* The server with a printer that works and a client that hangs up: no USB *)
(* operation raises, every busy-poll loop is in the end answered not-busy, *)
(* and every connection's stream ends.  The decoders may still reject the  *)
(* upload.  The client sends text, an image command and framing bytes.     *)
(***************************************************************************)
FewChunks == { <<72, 73>>, <<NUL>> \o DotSCR, <<CR>> }

\* recv() returns a non-empty chunk, one of FewChunks
RecvFew ==
    /\ pc = "recv"
    /\ recvs < MaxRecv
    /\ \E chunk \in FewChunks :
          /\ mode \in {PRINT_MODE_TXT, PRINT_MODE_SCR, PRINT_MODE_NXI}
                => Payload + Len(chunk) <= MaxPayload
          /\ data' = chunk
          /\ received' = received \o chunk
    /\ recvs' = recvs + 1
    /\ pc' = "byte"
    /\ UNCHANGED <<session, res, printing, exitCause, writes, job, handshake>>

LiveNext ==
    \/ SetupUsbNotFound
    \/ SetupUsb
    \/ Accept
    \/ RecvFew
    \/ RecvEnd
    \/ ProcessByte
    \/ WriteText
    \/ TextStatus
    \/ TextBusyWait
    \/ TextReady
    \/ NoJob
    \/ JobDecode
    \/ DecodeError
    \/ ResizeError
    \/ JobLedOff
    \/ PrintImageStart
    \/ PrintLine
    \/ PrintStatus
    \/ PrintBusyWait
    \/ PrintLineDone
    \/ PrintImageReturn
    \/ JobFeed
    \/ JobLedOffEnd

\* main() runs on; the printer answers not-busy in the end; the peer closes
LiveSpec ==
    /\ Init
    /\ [][LiveNext]_vars
    /\ WF_vars(LiveNext)
    /\ SF_vars(TextBusyWait /\ res' # USB_BUSY)
    /\ SF_vars(PrintBusyWait /\ res' # USB_BUSY)
    /\ SF_vars(RecvEnd)

(***************************************************************************)
(* The server fed a byte stream that TCP cuts anywhere: recv() returns any *)
(* non-empty run of the bytes that come next in the stream.                *)
(***************************************************************************)
\* the byte streams a client sends: two commands and an image payload, text,
\* a rotated .NXI upload, a SET command without keyword before .SCR, and a
\* command followed by text
Streams ==
    { <<NUL>> \o StrSET \o <<32>> \o StrDither \o <<CR>>
         \o <<NUL>> \o DotSCR \o <<CR>> \o <<72, NUL, CR>>,
      <<72, 73, NUL, CR>>,
      <<NUL>> \o StrSET \o <<32>> \o StrRotate \o <<CR>>
         \o <<NUL>> \o DotNXI \o <<CR>> \o <<CR, 72>>,
      <<NUL>> \o StrSET \o <<CR>> \o <<NUL>> \o DotSCR \o <<CR>> \o <<72>>,
      <<NUL, 72, 73, CR, 72, 73>> }

\* s is the first Len(s) elements of t
IsPrefix(s, t) ==
    /\ Len(s) <= Len(t)
    /\ SubSeq(t, 1, Len(s)) = s

\* [mutant] the command text is kept per recv(): it starts empty with every
\* chunk
SplitRecv_ClearsCmd ==
    /\ pc = "recv"
    /\ \E st \in Streams :
          /\ IsPrefix(received, st)
          /\ \E n \in 1..(Len(st) - Len(received)) :
                /\ data' = SubSeq(st, Len(received) + 1, Len(received) + n)
                /\ received' = SubSeq(st, 1, Len(received) + n)
    /\ cmd' = <<>>
    /\ recvs' = recvs + 1
    /\ pc' = "byte"
    /\ UNCHANGED <<mode, size, dither, rotate, input_buffer, res, printing,
                   exitCause, writes, job, handshake>>

\* recv() returns the next n bytes of the stream, n >= 1
SplitRecv ==
    /\ pc = "recv"
    /\ \E st \in Streams :
          /\ IsPrefix(received, st)
          /\ \E n \in 1..(Len(st) - Len(received)) :
                /\ data' = SubSeq(st, Len(received) + 1, Len(received) + n)
                /\ received' = SubSeq(st, 1, Len(received) + n)
    /\ recvs' = recvs + 1
    /\ pc' = "byte"
    /\ UNCHANGED <<session, res, printing, exitCause, writes, job, handshake>>

SplitNext ==
    \/ SetupUsbNotFound
    \/ SetupUsb
    \/ Accept
    \/ SplitRecv
    \/ RecvEnd
    \/ ProcessByte
    \/ WriteText
    \/ TextStatus
    \/ TextBusyWait
    \/ TextReady
    \/ NoJob
    \/ JobDecode
    \/ DecodeError
    \/ ResizeError
    \/ JobLedOff
    \/ PrintImageStart
    \/ PrintLine
    \/ PrintStatus
    \/ PrintBusyWait
    \/ PrintLineDone
    \/ PrintImageReturn
    \/ JobFeed
    \/ JobLedOffEnd
    \/ DeviceIOError

SplitSpec == Init /\ [][SplitNext]_vars

(***************************************************************************)
(* The body of "for byte in data" as a function of the session and the     *)
(* byte, and the session a byte stream leaves behind.                      *)
(***************************************************************************)
\* the session of lines 210-215, and nothing written yet
NewSession ==
    [mode |-> PRINT_MODE_NEW, dither |-> 0, rotate |-> 0, cmd |-> <<>>,
     input_buffer |-> <<>>, writes |-> <<>>]

\* lines 223-271 for one byte, every write and poll having returned
SessionStep(s, byte) ==
    LET eoc == s.mode = PRINT_MODE_CMD /\ byte = CR
        done == eoc /\ CmdDone(s.cmd)
        m == IF s.mode = PRINT_MODE_CMD
             THEN IF byte = CR THEN CmdMode(s.cmd, s.mode) ELSE s.mode
             ELSE IF s.mode = PRINT_MODE_NEW THEN Classify(byte)
             ELSE s.mode
    IN [mode |-> m,
        dither |-> IF eoc THEN CmdDither(s.cmd, s.dither) ELSE s.dither,
        rotate |-> IF eoc THEN CmdRotate(s.cmd, s.rotate) ELSE s.rotate,
        cmd |-> IF s.mode = PRINT_MODE_CMD
                THEN IF byte = CR THEN <<>> ELSE Append(s.cmd, byte)
                ELSE s.cmd,
        input_buffer |->
            IF ~done /\ m \in {PRINT_MODE_SCR, PRINT_MODE_NXI}
            THEN Append(s.input_buffer, byte) ELSE s.input_buffer,
        writes |-> IF ~done /\ m = PRINT_MODE_TXT
                   THEN Append(s.writes, <<byte>>) ELSE s.writes]

\* the session after the bytes of a stream, whatever the chunks
RECURSIVE Run(_)
Run(bytes) ==
    IF bytes = <<>> THEN NewSession
    ELSE SessionStep(Run(SubSeq(bytes, 1, Len(bytes) - 1)), bytes[Len(bytes)])

(***************************************************************************)
(* Properties.                                                             *)
(***************************************************************************)
\* the statement main() is at is the iteration for a chr(13) in command mode
AtEndOfCommand == pc = "byte" /\ mode = PRINT_MODE_CMD /\ Head(data) = CR

\* the chunk received has been iterated over to its end
ChunkDone == pc \in {"recv", "eof", "listen"}

\* C1: on a connection whose first byte is not 0x00 the session is in TEXT
\* from the first byte on, and the writes to the printer are the bytes
\* received, one byte a write, in the order received: a prefix of them while
\* a chunk is being iterated over, all of them once it is.
C1_TextForwarded ==
    (received # <<>> /\ received[1] # NUL) =>
        /\ Len(writes) <= Len(received)
        /\ \A i \in 1..Len(writes) : writes[i] = <<received[i]>>
        /\ pc = "byte" => Len(writes) = Len(received) - Len(data)
        /\ ChunkDone => Len(writes) = Len(received)
        /\ mode = IF writes = <<>> THEN PRINT_MODE_NEW ELSE PRINT_MODE_TXT

\* "HI" and a 0x00 have been received and written, a byte a write
C1_Witness ==
    /\ pc = "eof"
    /\ received = <<72, 73, NUL>>
    /\ writes = << <<72>>, <<73>>, <<NUL>> >>
    /\ mode = PRINT_MODE_TXT

\* the command text is none of the commands the dispatcher knows
Unrecognised(c) ==
    /\ c # DotSCR
    /\ c # DotNXI
    /\ ~(StartsWith(c, StrSET) /\ (Contains(c, StrDither) \/ Contains(c, StrRotate)))

\* C2: a chr(13) in command mode never leaves the session in command mode,
\* and a text that is no known command (a SET text without keyword included)
\* takes the session to NEW, flags unchanged, nothing written.
C2_CrLeavesCommand ==
    [][AtEndOfCommand =>
         /\ mode' # PRINT_MODE_CMD
         /\ Unrecognised(cmd) =>
               /\ mode' = PRINT_MODE_NEW
               /\ dither' = dither
               /\ rotate' = rotate
               /\ writes' = writes]_vars

\* C3 as claimed: a SET text containing "rotate" sets rotate and goes to NEW,
\* whatever else the text contains.
C3_RotateWhateverElse ==
    [][(AtEndOfCommand /\ StartsWith(cmd, StrSET) /\ Contains(cmd, StrRotate)) =>
         (rotate' = 1 /\ mode' = PRINT_MODE_NEW)]_vars

\* C3 as amended: a SET text containing "rotate" and not "dither" sets rotate
\* and goes to NEW; a SET text containing both goes to NEW with dither set
\* and rotate as it was.
C3_RotateUnlessDither ==
    [][(AtEndOfCommand /\ StartsWith(cmd, StrSET) /\ Contains(cmd, StrRotate)) =>
         /\ mode' = PRINT_MODE_NEW
         /\ ~Contains(cmd, StrDither) => rotate' = 1
         /\ Contains(cmd, StrDither) => (rotate' = rotate /\ dither' = 1)]_vars

\* 00 'SET rotate' 0D has been received: rotate is set, the session is in NEW
C3_Witness ==
    /\ ChunkDone
    /\ received = <<NUL>> \o StrSET \o <<32>> \o StrRotate \o <<CR>>
    /\ rotate = 1
    /\ dither = 0
    /\ mode = PRINT_MODE_NEW

\* the input of scenario 3: 00 'SET dither' 0D
Scenario3 == <<NUL>> \o StrSET \o <<32>> \o StrDither \o <<CR>>

\* C4: a SET text containing "dither" sets dither and goes to NEW; once
\* 00 'SET dither' 0D has been iterated over on a fresh connection the session
\* is in NEW with dither set.
C4_DitherSet ==
    [][/\ (AtEndOfCommand /\ StartsWith(cmd, StrSET) /\ Contains(cmd, StrDither)) =>
            (dither' = 1 /\ mode' = PRINT_MODE_NEW)
       /\ (received' = Scenario3 /\ ChunkDone') =>
            (dither' = 1 /\ mode' = PRINT_MODE_NEW)]_vars

\* scenario 3 has run
C4_Witness ==
    /\ pc = "eof"
    /\ received = Scenario3
    /\ dither = 1
    /\ rotate = 0
    /\ mode = PRINT_MODE_NEW

\* the input of scenario 1: 00 '.SCR' 0D
Scenario1 == <<NUL>> \o DotSCR \o <<CR>>

\* C5: a chr(13) in command mode takes the session to IMAGE_SCR iff the text
\* is exactly .SCR and to IMAGE_NXI iff it is exactly .NXI, and input_buffer
\* is empty then (the chr(13) is not appended); scenario 1 goes NEW, COMMAND,
\* IMAGE_SCR.
C5_ImageCommandExact ==
    [][/\ AtEndOfCommand =>
            /\ (mode' = PRINT_MODE_SCR) <=> (cmd = DotSCR)
            /\ (mode' = PRINT_MODE_NXI) <=> (cmd = DotNXI)
            /\ mode' \in {PRINT_MODE_SCR, PRINT_MODE_NXI} => input_buffer' = <<>>
       /\ (received' = <<NUL>> /\ ChunkDone') => mode' = PRINT_MODE_CMD
       /\ (received' = Scenario1 /\ ChunkDone') =>
            (mode' = PRINT_MODE_SCR /\ input_buffer' = <<>> /\ cmd' = <<>>)]_vars

\* scenario 1 has run
C5_Witness ==
    /\ pc = "recv"
    /\ received = Scenario1
    /\ mode = PRINT_MODE_SCR
    /\ input_buffer = <<>>

\* C6: the command buffer is empty right after every chr(13) iterated over in
\* command mode, and in every state whose mode is not command mode.
C6_CmdCleared ==
    [][/\ AtEndOfCommand => cmd' = <<>>
       /\ mode' # PRINT_MODE_CMD => cmd' = <<>>]_vars

\* the command 'HI' has been ended by a chr(13)
C6_Witness ==
    /\ pc = "recv"
    /\ received = <<NUL, 72, 73, CR>>
    /\ cmd = <<>>
    /\ mode = PRINT_MODE_NEW

\* C7: in an image mode input_buffer is the bytes iterated over since the
\* chr(13) that ended the .SCR or .NXI command, 0x00 and 0x0D included, in
\* the order received; at the end of the stream, all bytes received since.
C7_ImageBuffered ==
    ImageMode =>
        LET upto == Len(received) - Len(data)
            n == upto - Len(input_buffer)
        IN /\ n >= 5
           /\ received[n] = CR
           /\ SubSeq(received, n - 4, n - 1) =
                 (IF mode = PRINT_MODE_SCR THEN DotSCR ELSE DotNXI)
           /\ input_buffer = SubSeq(received, n + 1, upto)
           /\ pc = "eof" => upto = Len(received)

\* the stream ended after .NXI and the payload 00 0D
C7_Witness ==
    /\ pc = "eof"
    /\ mode = PRINT_MODE_NXI
    /\ input_buffer = <<NUL, CR>>

\* the print job was given the session's buffer, the decoder of its mode, the
\* dithered bitmap iff dither is set and a rotation iff rotate is set
JobMatchesSession ==
    /\ ImageMode
    /\ job.buffer = input_buffer
    /\ job.decoder = (IF mode = PRINT_MODE_SCR THEN "ZXScreen" ELSE "ZXImage")
    /\ job.variant \in {"mono", "dither"}
    /\ (job.variant = "dither") <=> (dither = 1)
    /\ job.rotated <=> (rotate = 1)

\* C8: at the end of the stream a print job is run iff the mode is IMAGE_SCR
\* or IMAGE_NXI, on the session's buffer, decoder, dither and rotate; in any
\* other mode no job runs and nothing more is written for the connection;
\* no job runs before the stream has ended.
C8_JobAtStreamEnd ==
    [][/\ (pc = "eof" /\ ImageMode) =>
            \/ pc' = "job_led" /\ job' # NoJobYet
            \/ pc' = "exited" /\ exitCause' \in {"DecodeError", "ResizeError"}
       /\ (pc = "eof" /\ ~ImageMode) =>
            (pc' = "listen" /\ job' = NoJobYet /\ writes' = writes)
       /\ job' # NoJobYet => JobMatchesSession'
       /\ pc' \in {"recv", "byte", "txt_status", "txt_while", "eof"} =>
            job' = NoJobYet]_vars

\* a dithered, unrotated .NXI job on the buffer "HI" has printed its lines
C8_Witness ==
    /\ pc = "job_feed"
    /\ job # NoJobYet
    /\ job.decoder = "ZXImage"
    /\ job.variant = "dither"
    /\ ~job.rotated
    /\ job.buffer = <<72, 73>>

\* C9: an error while a connection is processed aborts that connection's job
\* only; the process ends on a device-discovery failure at startup only.
C9_OnlyDiscoveryExits ==
    pc = "exited" => exitCause = "DeviceNotFound"

\* C10: a write to the printer happens only while no text byte and no dot
\* line awaits a status poll that reported not-busy, and the step after such
\* a write is a status poll (or the error that ends the process).
C10_BusyPoll ==
    [][/\ Len(writes') = Len(writes) + 1 => handshake = "clear"
       /\ handshake = "written" =>
            \/ handshake' \in {"busy", "clear"} /\ res' \in StatusBytes
                 /\ writes' = writes
            \/ pc' = "exited"
       /\ handshake = "busy" =>
            \/ handshake' \in {"busy", "clear"} /\ writes' = writes
            \/ pc' = "exited"]_vars

\* the second dot line of a job was written after the first was polled
\* not-busy, and the printer has answered busy
C10_Witness ==
    /\ pc = "pi_while"
    /\ line = 1
    /\ res = USB_BUSY
    /\ handshake = "busy"

\* a connection is accepted in this step
AcceptStep == pc' = "recv" /\ recvs' = 0

\* C11: a connection is accepted only from the listening state, and the
\* listening state is entered only from startup, from the end of a stream
\* that starts no job, or with the last write of a print job, all its dot
\* lines written; so one connection's writes and at most one job lie between
\* two accepts.
C11_Sequential ==
    [][/\ AcceptStep => (pc = "listen" /\ data = <<>> /\ handshake = "clear")
       /\ pc' = "listen" =>
            \/ pc = "setup_usb"
            \/ pc = "eof" /\ ~ImageMode /\ job = NoJobYet
            \/ /\ pc = "job_led_end"
               /\ job # NoJobYet
               /\ line = Lines
               /\ writes' = Append(writes, SET_LED_MODE \o <<0>>)
       /\ job' # NoJobYet =>
            pc' \in {"job_led", "pi_font", "pi_line", "pi_status", "pi_while",
                     "job_feed", "job_led_end", "listen", "exited"}]_vars

\* a print job has done its last write and the server is back at accept()
C11_Witness ==
    /\ pc = "listen"
    /\ job # NoJobYet
    /\ Len(print_data) = 2 * BYTES_PER_DOT_LINE
    /\ writes[Len(writes)] = SET_LED_MODE \o <<0>>

\* main() is serving a connection
Serving == pc \notin {"setup_usb", "listen", "exited"}

\* C12: with a printer that in the end answers not-busy, every text byte and
\* dot line written is in the end polled not-busy and the server gets back to
\* accept(); and a busy-poll loop is left on a not-busy answer only: while
\* the answer is busy no byte is processed and nothing is written.
C12_PollTerminates ==
    /\ (handshake # "clear") ~> (handshake = "clear")
    /\ Serving ~> (pc = "listen")
    /\ [][(pc \in {"txt_while", "pi_while"} /\ res = USB_BUSY /\ res' = USB_BUSY) =>
            (pc' = pc /\ size' = size /\ data' = data /\ line' = line
             /\ writes' = writes /\ received' = received)]_vars

\* C12, the part about the polling loops alone: every write is in the end
\* polled not-busy, a connection in the end is over (the server is back at
\* accept() or the process has ended), and a busy answer keeps the loop going.
C12_PollLoopsOnly ==
    /\ (handshake # "clear") ~> (handshake = "clear")
    /\ Serving ~> (pc \in {"listen", "exited"})
    /\ [][(pc \in {"txt_while", "pi_while"} /\ res = USB_BUSY /\ res' = USB_BUSY) =>
            (pc' = pc /\ size' = size /\ data' = data /\ line' = line
             /\ writes' = writes /\ received' = received)]_vars

\* the writes of a whole print job of n dot lines, as C13 lists them
JobWritesAsClaimed(n) ==
    << <<27, 88, 45, 0>>, <<27, 33, 3>> >>
    \o [i \in 1..n |->
          <<27, 42, 8, 48, 0>> \o SubSeq(print_data, 48 * (i - 1) + 1, 48 * i)]
    \o << <<10, 10, 10, 10, 10>>, <<27, 88, 45, 0>> >>

\* C13: the writes of a connection whose print job is over are LED off, font
\* mode, the dot lines from the first row to the last, each one write of
\* 1B 2A 08 30 00 and the row's 48 bytes, the five feeds and LED off again,
\* and nothing else.
C13_JobWrites ==
    (pc = "listen" /\ job # NoJobYet) =>
        writes = JobWritesAsClaimed(Len(print_data) \div 48)

\* a job of two different dot lines is over
C13_Witness ==
    /\ pc = "listen"
    /\ job # NoJobYet
    /\ Len(writes) = 6
    /\ writes[3] # writes[4]

\* convert_image of a bitmap 384 wide and 100 high (scenario 4)
Scenario4Data == convert_image("rows", 100)

\* C14: the encoded buffer of a bitmap resized to height h is 48 * h bytes
\* long, and once print_image has returned the job has written h dot lines
\* of 48 data bytes each, byte k of the buffer being byte (k - 1) % 48 + 1 of
\* dot line (k - 1) \div 48 + 1; a bitmap 100 high gives 4800 bytes and 100
\* lines.
C14_WholeBuffer ==
    /\ Len(Scenario4Data) = 4800
    /\ Len(Scenario4Data) \div BYTES_PER_DOT_LINE = 100
    /\ job # NoJobYet => Len(print_data) = 48 * job.hsize
    /\ (job # NoJobYet /\ pc = "job_feed") =>
          /\ Len(writes) = 2 + job.hsize
          /\ \A i \in 3..Len(writes) : Len(writes[i]) = 5 + 48
          /\ \A k \in 1..Len(print_data) :
                print_data[k] =
                   writes[2 + ((k - 1) \div 48) + 1][5 + ((k - 1) % 48) + 1]

\* print_image has returned from a bitmap resized to height 2
C14_Witness ==
    /\ pc = "job_feed"
    /\ job # NoJobYet
    /\ job.hsize = 2
    /\ Len(print_data) = 96
    /\ Len(writes) = 4

\* the iteration at hand is for a 0x00 received in NEW
AtCommandOpener == pc = "byte" /\ mode = PRINT_MODE_NEW /\ Head(data) = NUL

\* the input of C15's example: 00 'SET dither' 0D 00 '.SCR' 0D
Chained == Scenario3 \o Scenario1

\* C15: a 0x00 in NEW takes the session to COMMAND and is neither appended to
\* the command buffer nor written; every completed SET command takes the
\* session back to NEW, so that the next 0x00 opens the next command; the
\* flags are as the earlier commands set them when .SCR or .NXI enters the
\* image mode; 00 'SET dither' 0D 00 '.SCR' 0D ends in IMAGE_SCR with dither
\* set and input_buffer empty.
C15_CommandsChain ==
    [][/\ AtCommandOpener =>
            /\ mode' = PRINT_MODE_CMD
            /\ cmd' = <<>>
            /\ writes' = writes
            /\ input_buffer' = input_buffer
       /\ (AtEndOfCommand /\ StartsWith(cmd, StrSET)) => mode' = PRINT_MODE_NEW
       /\ (AtEndOfCommand /\ mode' \in {PRINT_MODE_SCR, PRINT_MODE_NXI}) =>
            (dither' = dither /\ rotate' = rotate)
       /\ (received' = Chained /\ ChunkDone') =>
            /\ mode' = PRINT_MODE_SCR
            /\ dither' = 1
            /\ input_buffer' = <<>>]_vars

\* C15 for the SET commands that name a flag: the same, with "every completed
\* SET command that contains dither or rotate".
C15_KeywordCommandsChain ==
    [][/\ AtCommandOpener =>
            /\ mode' = PRINT_MODE_CMD
            /\ cmd' = <<>>
            /\ writes' = writes
            /\ input_buffer' = input_buffer
       /\ (AtEndOfCommand /\ StartsWith(cmd, StrSET)
             /\ (Contains(cmd, StrDither) \/ Contains(cmd, StrRotate))) =>
            mode' = PRINT_MODE_NEW
       /\ (AtEndOfCommand /\ mode' \in {PRINT_MODE_SCR, PRINT_MODE_NXI}) =>
            (dither' = dither /\ rotate' = rotate)
       /\ (received' = Chained /\ ChunkDone') =>
            /\ mode' = PRINT_MODE_SCR
            /\ dither' = 1
            /\ input_buffer' = <<>>]_vars

\* the example of C15 has run
C15_ChainedRun ==
    /\ pc = "recv"
    /\ received = Chained
    /\ mode = PRINT_MODE_SCR
    /\ dither = 1

\* 00 'SET' 0D 00 '.SCR' 0D has run: the second 0x00 went into the command
\* text and the session is not in IMAGE_SCR
C15_ChainBroken ==
    /\ ChunkDone
    /\ received = <<NUL>> \o StrSET \o <<CR>> \o Scenario1
    /\ mode # PRINT_MODE_SCR


\* C16: once the mode is TEXT, IMAGE_SCR or IMAGE_NXI it stays that mode until
\* the next connection is accepted, whatever the bytes; in TEXT every byte
\* iterated over, 0x00 and 0x0D too, is written to the printer (unless the
\* write raises) and the command buffer stays empty; in an image mode every
\* byte is appended to input_buffer and none is written.
C16_Absorbing ==
    [][/\ (mode \in {PRINT_MODE_TXT, PRINT_MODE_SCR, PRINT_MODE_NXI}
             /\ pc # "listen") => mode' = mode
       /\ (pc = "byte" /\ mode = PRINT_MODE_TXT) =>
            /\ cmd' = <<>>
            /\ input_buffer' = input_buffer
            /\ \/ writes' = Append(writes, <<Head(data)>>)
               \/ pc' = "exited"
       /\ (pc = "byte" /\ ImageMode) =>
            /\ cmd' = <<>>
            /\ writes' = writes
            /\ input_buffer' = Append(input_buffer, Head(data))]_vars

\* 0D 00 0D was received on a fresh connection: text mode from the first
\* byte, and the 0x00 and the second 0x0D were written in text mode
C16_Witness ==
    /\ pc = "eof"
    /\ received = <<CR, NUL, CR>>
    /\ mode = PRINT_MODE_TXT
    /\ writes = << <<CR>>, <<NUL>>, <<CR>> >>
    /\ cmd = <<>>


\* s is the last Len(s) elements of t
IsSuffix(s, t) ==
    /\ Len(s) <= Len(t)
    /\ SubSeq(t, Len(t) - Len(s) + 1, Len(t)) = s

\* C17: whatever session the last connection left behind, the step that
\* accepts a connection leaves mode NEW, cmd and input_buffer empty, dither
\* and rotate 0 and size 0; and what a session and its print job hold comes
\* from the bytes of its own connection: a flag is set only if the keyword was
\* received, cmd, input_buffer and the job's buffer are made of bytes received.
C17_FreshSession ==
    [][/\ pc = "listen" =>
            /\ pc' = "recv"
            /\ mode' = PRINT_MODE_NEW
            /\ cmd' = <<>>
            /\ input_buffer' = <<>>
            /\ dither' = 0
            /\ rotate' = 0
            /\ size' = 0
       /\ dither' = 1 => Contains(received', StrDither)
       /\ rotate' = 1 => Contains(received', StrRotate)
       /\ size' + Len(data') = Len(received')
       /\ (ChunkDone' /\ pc' # "exited") =>
            (IsSuffix(cmd', received') /\ IsSuffix(input_buffer', received'))
       /\ job' # NoJobYet =>
            /\ IsSuffix(job'.buffer, received')
            /\ (job'.variant = "dither") => Contains(received', StrDither)
            /\ job'.rotated => Contains(received', StrRotate)]_vars

\* a connection that set both flags and left a command unfinished is over and
\* the server is at accept() again
C17_Witness ==
    /\ pc = "listen"
    /\ dither = 1
    /\ rotate = 1
    /\ mode = PRINT_MODE_CMD
    /\ cmd = DotSCR
    /\ size = 29


\* main() is in the read loop of a connection, or has just left it
InReadLoop == pc \in {"recv", "byte", "txt_status", "txt_while", "eof"}

\* the bytes of the connection whose iteration has got to the write or past it
Iterated ==
    Len(received) - Len(data)
       + (IF pc \in {"txt_status", "txt_while"} THEN 1 ELSE 0)

\* C18: in the read loop nothing is written and no status is polled while the
\* mode is not TEXT (NEW on 0x00, COMMAND, IMAGE_SCR, IMAGE_NXI); the byte
\* that enters TEXT is the first byte written; the writes are the bytes
\* iterated over from that byte on, one byte a write.
C18_WritesOnlyInText ==
    [][/\ (InReadLoop' /\ mode' # PRINT_MODE_TXT) =>
            (writes' = <<>> /\ res' = NoStatus /\ handshake' = "clear")
       /\ pc' \in {"txt_status", "txt_while"} => mode' = PRINT_MODE_TXT
       /\ (pc = "byte" /\ mode # PRINT_MODE_TXT /\ mode' = PRINT_MODE_TXT) =>
            (writes = <<>> /\ writes' = << <<Head(data)>> >>)
       /\ (InReadLoop' /\ mode' = PRINT_MODE_TXT) =>
            /\ Len(writes') <= Iterated'
            /\ \A i \in 1..Len(writes') :
                  writes'[i] = <<received'[Iterated' - Len(writes') + i]>>]_vars

\* the command 'HI' was ended, then the text "HI" was received: the four
\* bytes of the command were not written, the two of the text were
C18_Witness ==
    /\ pc = "eof"
    /\ received = <<NUL, 72, 73, CR, 72, 73>>
    /\ mode = PRINT_MODE_TXT
    /\ writes = << <<72>>, <<73>> >>


\* C19: from the first recv of a connection to its end dither and rotate are
\* 0 or 1 and never go from 1 to 0; a step changes one of them only if it is
\* the iteration for a chr(13) in command mode; no step changes them while
\* the mode is TEXT, IMAGE_SCR or IMAGE_NXI.
C19_FlagsMonotone ==
    [][/\ dither' \in {0, 1}
       /\ rotate' \in {0, 1}
       /\ pc # "listen" =>
            /\ dither' >= dither
            /\ rotate' >= rotate
            /\ (dither' # dither \/ rotate' # rotate) => AtEndOfCommand
            /\ mode \in {PRINT_MODE_TXT, PRINT_MODE_SCR, PRINT_MODE_NXI} =>
                  (dither' = dither /\ rotate' = rotate)]_vars

\* rotate was set by one command and is still set after a second rotate
\* command and the text that followed
C19_Witness ==
    /\ pc = "eof"
    /\ received = <<NUL>> \o StrSET \o <<32>> \o StrRotate \o <<CR>>
                  \o <<NUL>> \o StrSET \o <<32>> \o StrRotate \o <<CR>>
                  \o <<72, 73>>
    /\ rotate = 1
    /\ dither = 0
    /\ mode = PRINT_MODE_TXT


\* the session and the writes of the connection being served
SessionNow ==
    [mode |-> mode, dither |-> dither, rotate |-> rotate, cmd |-> cmd,
     input_buffer |-> input_buffer, writes |-> writes]

\* C20: however recv() cuts the stream, the mode, the flags, cmd, input_buffer
\* and the writes are a function of the bytes iterated over alone: of the
\* bytes received once a chunk is finished or the stream has ended, of the
\* bytes before the one at hand in the middle of a chunk; and the print job is
\* started on that buffer, decoder and flags.
C20_ChunkingIndependent ==
    /\ pc \in {"recv", "eof"} => SessionNow = Run(received)
    /\ pc = "byte" =>
          SessionNow = Run(SubSeq(received, 1, Len(received) - Len(data)))
    /\ job # NoJobYet =>
          LET r == Run(received)
          IN /\ job.buffer = r.input_buffer
             /\ job.decoder =
                   (IF r.mode = PRINT_MODE_SCR THEN "ZXScreen" ELSE "ZXImage")
             /\ (job.variant = "dither") <=> (r.dither = 1)
             /\ job.rotated <=> (r.rotate = 1)

\* the first stream was received one byte a recv(), 21 reads, to its end: a
\* command, a second command and the image payload, each cut at every byte
C20_Witness ==
    /\ pc = "eof"
    /\ Len(received) = 21
    /\ recvs = 21
    /\ mode = PRINT_MODE_SCR
    /\ dither = 1
    /\ input_buffer = <<72, NUL, CR>>

=============================================================================
